---- MODULE Spec2Model ----
(***************************************************************************)
(* A model of src/src/Affiliate.js: the link-rewrite engine (traverse and  *)
(* #modifyURL), its MutationObserver callback and the attach/detach        *)
(* lifecycle, together with the parts of the browser and of the two        *)
(* libraries (url-parse, docile) that the engine's behaviour depends on.   *)
(*                                                                         *)
(* A JavaScript string is a sequence of tokens; a token stands for a run   *)
(* of characters that no configured replacement splits ("http:", "//",     *)
(* "shop", "/x", "?", "ref", "=", "A", "&").  The empty string is << >>.   *)
(***************************************************************************)
EXTENDS Naturals, Sequences, FiniteSets, TLC

\* ------------------------------------------------------------------------
\* Generic helpers on sequences
\* ------------------------------------------------------------------------

Range(s) == {s[i] : i \in 1..Len(s)}

\* The part of s after its first n elements.
Drop(s, n) == SubSeq(s, n + 1, Len(s))

\* Position of the first element of s that is in set T, or Len(s)+1.
FirstIn(s, T) ==
  IF \E i \in 1..Len(s) : s[i] \in T
  THEN CHOOSE i \in 1..Len(s) : s[i] \in T /\ \A j \in 1..(i - 1) : s[j] \notin T
  ELSE Len(s) + 1

\* The JavaScript value undefined / null (a missing record, a missing argument).
Undefined == "undefined"

\* JavaScript truthiness of a string: only the empty string is falsy.
Truthy(str) == str # << >>

\* ------------------------------------------------------------------------
\* The URL utility (url-parse with its query parser, querystringify)
\* ------------------------------------------------------------------------

Schemes == {"http:", "https:", "HTTP:"}

\* The tokens that start with "/": where the host ends and the path begins.
PathTokens == {"/", "/x", "/m", "/p"}

\* String.prototype.toLowerCase on one token (protocol and host are lowercased).
Lower(t) ==
  CASE t = "SHOP" -> "shop"
    [] t = "HTTP:" -> "http:"
    [] OTHER -> t

LowerAll(s) == [i \in 1..Len(s) |-> Lower(s[i])]

\* The page's own address: a relative href is resolved against it.
Location == [protocol |-> "http:", host |-> <<"page">>, pathname |-> <<"/p">>]

\* querystringify.parse on one "&"-separated piece: the key is the run before
\* the first "=", the value everything after it; a piece with no key is dropped.
ParsePiece(piece) ==
  LET p == Drop(piece, FirstIn(piece, Range(piece) \ {"="}) - 1)
      eq == FirstIn(p, {"="})
  IN IF p = << >> THEN << >>
     ELSE << [key |-> SubSeq(p, 1, eq - 1), value |-> Drop(p, eq)] >>

RECURSIVE SplitAmp(_)
SplitAmp(s) ==
  LET i == FirstIn(s, {"&"})
  IN IF i > Len(s) THEN << s >>
     ELSE << SubSeq(s, 1, i - 1) >> \o SplitAmp(Drop(s, i))

HasKey(q, k) == \E i \in 1..Len(q) : q[i].key = k

Lookup(q, k) == q[CHOOSE i \in 1..Len(q) : q[i].key = k].value

\* querystringify.parse: a query string to a mapping; the first occurrence of
\* a key wins.
RECURSIVE ParsePieces(_, _)
ParsePieces(pieces, acc) ==
  IF pieces = << >> THEN acc
  ELSE LET kv == ParsePiece(Head(pieces))
       IN ParsePieces(Tail(pieces),
            IF kv = << >> \/ HasKey(acc, kv[1].key) THEN acc ELSE acc \o kv)

ParseQuery(qs) == ParsePieces(SplitAmp(qs), << >>)

\* querystringify.stringify: "k=v" pairs joined by "&", "" for no pairs.
RECURSIVE Stringify(_)
Stringify(q) ==
  IF q = << >> THEN << >>
  ELSE q[1].key \o <<"=">> \o q[1].value
       \o (IF Len(q) > 1 THEN <<"&">> \o Stringify(Tail(q)) ELSE << >>)

\* Url.prototype.toString: the query is appended only when it is non-empty.
UrlToString(url) ==
  LET query == Stringify(url.query)
  IN << url.protocol, "//" >> \o url.host \o url.pathname
     \o (IF Truthy(query) THEN <<"?">> \o query ELSE << >>)

\* url.href, which url-parse keeps equal to toString() after parse and set.
Href(url) == UrlToString(url)

\* parseURL(address, true): protocol and host lowercased, "/" as the default
\* pathname, the query parsed into a mapping.
ParseURL(address) ==
  LET absolute == Len(address) >= 2 /\ address[1] \in Schemes /\ address[2] = "//"
      rest == IF absolute THEN Drop(address, 2) ELSE address
      q == FirstIn(rest, {"?"})
      beforeQuery == SubSeq(rest, 1, q - 1)
      slash == FirstIn(beforeQuery, PathTokens)
      host == IF absolute THEN LowerAll(SubSeq(beforeQuery, 1, slash - 1))
              ELSE Location.host
      path == IF absolute THEN Drop(beforeQuery, slash - 1) ELSE beforeQuery
  IN [protocol |-> IF absolute THEN Lower(address[1]) ELSE Location.protocol,
      host |-> host,
      pathname |-> IF path # << >> THEN path
                   ELSE IF absolute THEN <<"/">> ELSE Location.pathname,
      query |-> ParseQuery(Drop(rest, q))]

\* url.set('query', mapping)
SetQuery(url, query) == [url EXCEPT !.query = query]

\* url.set('pathname', p)
SetPathname(url, p) == [url EXCEPT !.pathname = p]

\* Mutant of Spread: on a key both define, a's value is kept.
SpreadFirstWins(a, b) == a \o SelectSeq(b, LAMBDA kv : ~HasKey(a, kv.key))

\* {...a, ...b}: a's keys in a's order with b's values where b defines them,
\* then b's other keys in b's order.
Spread(a, b) ==
  [i \in 1..Len(a) |->
     [key |-> a[i].key,
      value |-> IF HasKey(b, a[i].key) THEN Lookup(b, a[i].key) ELSE a[i].value]]
  \o SelectSeq(b, LAMBDA kv : ~HasKey(a, kv.key))

\* String.prototype.replace(from, to) with a string pattern: the first
\* occurrence only.
StrReplace(str, from, to) ==
  LET hits == {i \in 1..(Len(str) + 1) :
                 i + Len(from) - 1 <= Len(str)
                 /\ SubSeq(str, i, i + Len(from) - 1) = from}
  IN IF hits = {} THEN str
     ELSE LET i == CHOOSE i \in hits : \A j \in hits : i <= j
          IN SubSeq(str, 1, i - 1) \o to \o Drop(str, i + Len(from) - 1)

\* ------------------------------------------------------------------------
\* The document: a body holding link a1 and a div, the div holding link a2;
\* link a3, where a script has inserted it, is a child of link a1
\* ------------------------------------------------------------------------

Links == {"a1", "a2", "a3"}

\* The links page code adds and changes while the engine runs.
PageLinks == {"a1", "a2"}
Elems == {"body", "div"} \cup Links

\* element.nodeName.toLowerCase()
NodeName(e) == IF e \in Links THEN "a" ELSE e

\* The parent an element has while it is in the document.
Parent(e) ==
  CASE e = "a1" -> "body"
    [] e = "a2" -> "div"
    [] e = "a3" -> "a1"
    [] e = "div" -> "body"

RECURSIVE Ancestors(_)
Ancestors(e) == IF e = "body" THEN {} ELSE {Parent(e)} \cup Ancestors(Parent(e))

\* The links in document order.
DocOrder == <<"a1", "a3", "a2">>

\* A string as written in a page or in a tag: helpers for the literals below.
ShopX == <<"http:", "//", "shop", "/x">>
ShopXRefA == ShopX \o <<"?", "ref", "=", "A">>
ShopXRefB == ShopX \o <<"?", "ref", "=", "B">>
OtherX == <<"http:", "//", "other", "/x">>
RefA == <<"ref", "=", "A">>
RefB == <<"ref", "=", "B">>

\* The hrefs page code gives its links.
PageHrefs == {ShopX, ShopXRefA, OtherX}

\* ------------------------------------------------------------------------
\* Tags and configurations handed to the constructor
\* ------------------------------------------------------------------------

KV(k, v) == [key |-> <<k>>, value |-> <<v>>]

\* hosts given as a single string, query only.
TagQ == [hosts |-> [typeof |-> "string", value |-> <<"shop">>],
         query |-> << KV("ref", "A") >>]

\* hosts given as an array, replace only.
TagR == [hosts |-> [typeof |-> "object", value |-> << <<"shop">> >>],
         replace |-> << [from |-> RefA, to |-> RefB] >>]

TagQR == [hosts |-> [typeof |-> "string", value |-> <<"shop">>],
          query |-> << KV("ref", "A") >>,
          replace |-> << [from |-> RefA, to |-> RefB] >>]

\* A second rule for the same host, with a transform that is not idempotent.
TagAff == [hosts |-> [typeof |-> "object", value |-> << <<"shop">> >>],
           query |-> << KV("aff", "1") >>,
           modify |-> "append"]

\* Tags the parameter and strips it again: the written href ends in "?".
TagStrip == [hosts |-> [typeof |-> "string", value |-> <<"shop">>],
             query |-> << KV("ref", "A") >>,
             replace |-> << [from |-> RefA, to |-> << >>] >>]

\* A transform that always throws.
TagThrow == [hosts |-> [typeof |-> "object", value |-> << <<"shop">>, <<"other">> >>],
             query |-> << KV("ref", "A") >>,
             modify |-> "throws",
             replace |-> << [from |-> RefA, to |-> RefB] >>]

\* Blanks one address.
TagBlank == [hosts |-> [typeof |-> "string", value |-> <<"shop">>],
             replace |-> << [from |-> ShopX, to |-> << >>] >>]

\* No fields at all: the defaults match nothing.
TagEmpty == [note |-> "empty"]

\* Two parameters, one of which the link may already carry.
TagMerge == [hosts |-> [typeof |-> "string", value |-> <<"shop">>],
             query |-> << KV("ref", "A"), KV("b", "3") >>]

\* Two replacements, the second matching what the first produces.
TagChain == [hosts |-> [typeof |-> "string", value |-> <<"shop">>],
             replace |-> << [from |-> <<"http:">>, to |-> <<"https:">>],
                            [from |-> <<"https:", "//", "shop">>,
                             to |-> <<"https:", "//", "new">>] >>]

Configs ==
  { [tags |-> << TagQ, TagR >>],
    [tags |-> << TagQR, TagAff >>],
    [tags |-> << TagStrip >>],
    [tags |-> << TagThrow, TagAff >>],
    [tags |-> << TagBlank, TagEmpty >>] }

\* ------------------------------------------------------------------------
\* constructor(config)
\* ------------------------------------------------------------------------

\* One pass of the constructor's loop over a tag: a single host becomes an
\* array, missing hosts/query/replace get their empty defaults.
NormalizeTag(tag) ==
  [hosts |-> IF "hosts" \notin DOMAIN tag THEN << >>
             ELSE IF tag.hosts.typeof = "string" THEN << tag.hosts.value >>
             ELSE tag.hosts.value,
   query |-> IF "query" \in DOMAIN tag THEN tag.query ELSE << >>,
   replace |-> IF "replace" \in DOMAIN tag THEN tag.replace ELSE << >>,
   modify |-> IF "modify" \in DOMAIN tag THEN tag.modify ELSE Undefined]

RECURSIVE Concat(_)
Concat(ss) == IF ss = << >> THEN << >> ELSE Head(ss) \o Concat(Tail(ss))

\* The engine state the constructor leaves: #state.
Constructor(config) ==
  LET tags == [i \in 1..Len(config.tags) |-> NormalizeTag(config.tags[i])]
  IN [attached |-> FALSE,
      config |-> [tags |-> tags],
      hosts |-> Concat([i \in 1..Len(tags) |-> tags[i].hosts])]

\* Array.prototype.indexOf(x) !== -1
Includes(arr, x) == \E i \in 1..Len(arr) : arr[i] = x

\* ------------------------------------------------------------------------
\* State
\* ------------------------------------------------------------------------

VARIABLES
  state,        \* #state: attached, config, hosts
  others,       \* the #state of the other engine instances on the page
  canObserve,   \* whether window.MutationObserver exists
  observer,     \* #observer: connected (observing document.body), its record queue
  readyState,   \* document.readyState
  listeners,    \* the window's DOMContentLoaded listener list
  inDoc,        \* the links that are in the document
  href,         \* each link's href attribute ("" before the page sets it)
  docile,       \* Docile's store: per link, << >> or << [was, is] >>
  pristine,     \* history: per link, << >> or << the href before the engine's first write >>
  detachCalled, \* history: detach() was called and attach() has not run since
  tampered,     \* history: the links whose href page code set after the engine's last write
  last,         \* history: what the last step was and what it did
  pageOps,      \* number of document changes page code has made
  calls         \* number of calls page code has made to traverse/attach/detach

vars == << state, others, canObserve, observer, readyState, listeners, inDoc, href,
           docile, pristine, detachCalled, tampered, last, pageOps, calls >>

\* Bounds on what page code does in one run.
MaxPageOps == 1
MaxCalls == 3

\* ------------------------------------------------------------------------
\* Docile (per-element store) and the DOM calls the engine makes
\* ------------------------------------------------------------------------

\* Docile.get(node): the record set for this element, if any.
DocileGet(store, node) == store[node]

\* Docile.set(node, data)
DocileSet(store, node, data) == [store EXCEPT ![node] = << data >>]

\* What the engine's code reads and writes while one handler runs: the world
\* w has the running instance's attached, config and hosts, and connected,
\* records, listeners, href, docile (and the history tampered),
\* and the step's history: trav (arguments of the traverse calls), subs
\* (observe calls), wrote (links written), applied (the #modifyURL
\* invocations), log (the callback's decisions), thrown (an exception is
\* propagating).
WorldOf(st) ==
  [attached |-> st.attached, config |-> st.config, hosts |-> st.hosts,
   connected |-> observer.connected,
   records |-> observer.records, listeners |-> listeners,
   href |-> href, docile |-> docile, tampered |-> tampered,
   trav |-> << >>, subs |-> 0, wrote |-> << >>, applied |-> << >>,
   log |-> << >>, thrown |-> FALSE]

\* The world of a handler of this instance.
World == WorldOf(state)

\* A MutationRecord; by is history: whose write it reports.
Record(type, target, by) ==
  [type |-> type, attributeName |-> IF type = "attributes" THEN "href" ELSE Undefined,
   target |-> target, by |-> by]

\* What observer.observe(document.body, {childList, subtree, attributes,
\* attributeFilter: ['href']}) makes the browser queue for a change made to a
\* node of the body's subtree while the observer is connected.
Queue(records, connected, node, rec) ==
  IF connected /\ (node \in inDoc \/ node \in {"body", "div"})
  THEN Append(records, rec) ELSE records

\* node.setAttribute('href', value)
SetAttribute(w, node, value, by) ==
  [w EXCEPT !.href[node] = value,
            !.records = Queue(@, w.connected, node, Record("attributes", node, by)),
            !.wrote = Append(@, node),
            !.tampered = @ \ {node}]

\* nodeSet.getElementsByTagName('a'): the links below root, in document order.
GetElementsByTagName(root) ==
  SelectSeq(DocOrder, LAMBDA l : l \in inDoc /\ root \in Ancestors(l))

\* window.addEventListener(type, listener): a listener already in the list
\* is not added again.
AddEventListener(ls, listener) ==
  IF Includes(ls, listener) THEN ls ELSE Append(ls, listener)

\* ------------------------------------------------------------------------
\* #modifyURL
\* ------------------------------------------------------------------------

\* tag.modify(url): the transforms of the configurations above.  "append"
\* returns a new parsed URL with "/m" added to the path; "throws" throws.
CallModify(fn, url) ==
  IF fn = "throws" THEN [threw |-> TRUE, returned |-> << >>]
  ELSE [threw |-> FALSE, returned |-> Href(SetPathname(url, url.pathname \o <<"/m">>))]

\* Mutant of ApplyReplace: the entries are applied last to first.
RECURSIVE ApplyReplaceReversed(_, _)
ApplyReplaceReversed(url, replace) ==
  IF replace = << >> THEN url
  ELSE StrReplace(ApplyReplaceReversed(url, Tail(replace)),
                  replace[1].from, replace[1].to)

\* for (let i in tag.replace) url = url.replace(from, to)
RECURSIVE ApplyReplace(_, _)
ApplyReplace(url, replace) ==
  IF replace = << >> THEN url
  ELSE ApplyReplace(StrReplace(url, replace[1].from, replace[1].to), Tail(replace))

\* History: one #modifyURL invocation on node with tag, entered with the
\* parsed URL url in world w and returning in world w2; tampered tells whether
\* page code had set the href since the engine last wrote it.
Invocation(url, node, tag, w, w2, skipped) ==
  [node |-> node, tag |-> tag, url |-> Href(url), attr |-> w.href[node],
   skipped |-> skipped, tampered |-> node \in w.tampered,
   href |-> w2.href[node],
   stored |-> DocileGet(w2.docile, node)]

\* Mutant of ModifyURL: tag.modify is called outside any try/catch, so what
\* it throws propagates and nothing is written.
ModifyURLNoCatch(url, node, tag, w) ==
  LET linkData == DocileGet(w.docile, node)
  IN IF linkData # << >> /\ Truthy(linkData[1].is) /\ linkData[1].is = Href(url)
     THEN [url |-> url, w |-> w]
     ELSE
       LET originalURL == Href(url)
           merged == SetQuery(url, Spread(url.query, tag.query))
           res == CallModify(tag.modify, merged)
           modified == IF tag.modify # Undefined THEN ParseURL(res.returned) ELSE merged
           final == ApplyReplace(Href(modified), tag.replace)
           w1 == SetAttribute(w, node, final, "engine")
       IN IF tag.modify # Undefined /\ res.threw
          THEN [url |-> merged, w |-> [w EXCEPT !.thrown = TRUE]]
          ELSE [url |-> merged,
                w |-> [w1 EXCEPT !.docile =
                         DocileSet(@, node, [was |-> originalURL, is |-> final])]]

\* Mutant of ModifyURL: the record's is is the URL before the replace rules.
ModifyURLStoresUnreplaced(url, node, tag, w) ==
  LET linkData == DocileGet(w.docile, node)
  IN IF linkData # << >> /\ Truthy(linkData[1].is) /\ linkData[1].is = Href(url)
     THEN [url |-> url,
           w |-> [w EXCEPT !.applied =
                    Append(@, Invocation(url, node, tag, w, w, TRUE))]]
     ELSE
       LET originalURL == Href(url)
           merged == SetQuery(url, Spread(url.query, tag.query))
           res == CallModify(tag.modify, merged)
           modified == IF tag.modify # Undefined /\ ~res.threw
                       THEN ParseURL(res.returned) ELSE merged
           final == ApplyReplace(Href(modified), tag.replace)
           w1 == SetAttribute(w, node, final, "engine")
           w2 == [w1 EXCEPT !.docile =
                    DocileSet(@, node, [was |-> originalURL, is |-> Href(modified)])]
       IN [url |-> merged,
           w |-> [w2 EXCEPT !.applied =
                    Append(@, Invocation(url, node, tag, w, w2, FALSE))]]

\* #modifyURL(url, node, tag).  url is the caller's parsed URL object, which
\* url.set mutates: the result's url is that object afterwards.
ModifyURL(url, node, tag, w) ==
  LET linkData == DocileGet(w.docile, node)
  IN IF linkData # << >> /\ Truthy(linkData[1].is) /\ linkData[1].is = Href(url)
     THEN [url |-> url,
           w |-> [w EXCEPT !.applied =
                    Append(@, Invocation(url, node, tag, w, w, TRUE))]]
     ELSE
       LET originalURL == Href(url)
           merged == SetQuery(url, Spread(url.query, tag.query))
           res == CallModify(tag.modify, merged)
           modified == IF tag.modify # Undefined /\ ~res.threw
                       THEN ParseURL(res.returned) ELSE merged
           final == ApplyReplace(Href(modified), tag.replace)
           w1 == SetAttribute(w, node, final, "engine")
           w2 == [w1 EXCEPT !.docile =
                    DocileSet(@, node, [was |-> originalURL, is |-> final])]
       IN [url |-> merged,
           w |-> [w2 EXCEPT !.applied =
                    Append(@, Invocation(url, node, tag, w, w2, FALSE))]]

\* ------------------------------------------------------------------------
\* traverse
\* ------------------------------------------------------------------------

\* for (let i in tags) if (tags[i].hosts.indexOf(url.host) !== -1) #modifyURL(...)
RECURSIVE ApplyTags(_, _, _, _)
ApplyTags(i, url, node, w) ==
  IF i > Len(w.config.tags) \/ w.thrown THEN w
  ELSE IF Includes(w.config.tags[i].hosts, url.host)
       THEN LET r == ModifyURL(url, node, w.config.tags[i], w)
            IN ApplyTags(i + 1, r.url, node, r.w)
       ELSE ApplyTags(i + 1, url, node, w)

\* Mutant of TraverseNode: neither the host filter nor the per-tag host check.
RECURSIVE ApplyAllTags(_, _, _, _)
ApplyAllTags(i, url, node, w) ==
  IF i > Len(w.config.tags) \/ w.thrown THEN w
  ELSE LET r == ModifyURL(url, node, w.config.tags[i], w)
       IN ApplyAllTags(i + 1, r.url, node, r.w)

TraverseNodeNoFilter(node, w) ==
  IF ~Truthy(w.href[node]) THEN w
  ELSE ApplyAllTags(1, ParseURL(w.href[node]), node, w)

\* The body of traverse's loop for one link.
TraverseNode(node, w) ==
  IF ~Truthy(w.href[node]) THEN w
  ELSE LET url == ParseURL(w.href[node])
       IN IF ~Includes(w.hosts, url.host) THEN w
          ELSE ApplyTags(1, url, node, w)

RECURSIVE TraverseNodes(_, _)
TraverseNodes(nodes, w) ==
  IF nodes = << >> \/ w.thrown THEN w
  ELSE TraverseNodes(Tail(nodes), TraverseNode(Head(nodes), w))

\* traverse(nodeSet)
Traverse(nodeSet, w) ==
  LET root == IF nodeSet = Undefined THEN "body" ELSE nodeSet
      w0 == [w EXCEPT !.trav = Append(@, nodeSet)]
  IN IF root \notin Elems THEN w0
     ELSE TraverseNodes(IF NodeName(root) = "a" THEN << root >>
                        ELSE GetElementsByTagName(root), w0)

\* ------------------------------------------------------------------------
\* The MutationObserver callback
\* ------------------------------------------------------------------------

\* Mutant of Ignored: the href comparison with the stored is is missing.
IgnoredNever(mu, w) == mu.type = "attributes" /\ mu.attributeName # "href"

\* Whether the callback skips a record: an attribute change that is not of
\* href, or whose target's href is the stored is.
Ignored(mu, w) ==
  /\ mu.type = "attributes"
  /\ \/ mu.attributeName # "href"
     \/ LET linkData == DocileGet(w.docile, mu.target)
        IN linkData # << >> /\ Truthy(linkData[1].is)
           /\ linkData[1].is = w.href[mu.target]

\* History: what the callback saw and did for one record.
\* href and stored are the target's href and record when its turn came, args
\* the arguments of the traverse calls made for it, touched the links whose
\* href or record its handling changed.
LogEntry(mu, w, w2) ==
  [target |-> mu.target, type |-> mu.type, by |-> mu.by,
   href |-> IF mu.target \in Links THEN w.href[mu.target] ELSE << >>,
   stored |-> IF mu.target \in Links THEN DocileGet(w.docile, mu.target) ELSE << >>,
   traversed |-> Len(w2.trav) > Len(w.trav),
   changed |-> w2.href # w.href \/ w2.docile # w.docile,
   args |-> SubSeq(w2.trav, Len(w.trav) + 1, Len(w2.trav)),
   touched |-> {l \in Links : w2.href[l] # w.href[l] \/ w2.docile[l] # w.docile[l]}]

\* Mutant of HandleMutations: every record that is not ignored makes the
\* engine scan the whole body.
RECURSIVE HandleMutationsWholeBody(_, _)
HandleMutationsWholeBody(mutations, w) ==
  IF mutations = << >> \/ w.thrown THEN w
  ELSE LET mu == Head(mutations)
           w2 == IF Ignored(mu, w) THEN w ELSE Traverse("body", w)
       IN HandleMutationsWholeBody(Tail(mutations),
            [w2 EXCEPT !.log = Append(@, LogEntry(mu, w, w2))])

\* for (let i in mutations) { ... this.traverse(mutations[i].target) }
RECURSIVE HandleMutations(_, _)
HandleMutations(mutations, w) ==
  IF mutations = << >> \/ w.thrown THEN w
  ELSE LET mu == Head(mutations)
           w2 == IF Ignored(mu, w) THEN w ELSE Traverse(mu.target, w)
       IN HandleMutations(Tail(mutations),
            [w2 EXCEPT !.log = Append(@, LogEntry(mu, w, w2))])

\* ------------------------------------------------------------------------
\* attach and detach
\* ------------------------------------------------------------------------

\* this.#observer.observe(document.body, ...)
Observe(w) == [w EXCEPT !.connected = TRUE, !.subs = @ + 1]

\* this.#observer.disconnect(): also empties the record queue.
Disconnect(w) == [w EXCEPT !.connected = FALSE, !.records = << >>]

\* Mutant of Attach: the "cannot attach twice" guard is missing.
AttachTwice(w) ==
  IF readyState \in {"complete", "interactive", "loaded"}
  THEN LET w1 == Traverse(Undefined, [w EXCEPT !.attached = TRUE])
       IN IF w1.thrown \/ ~canObserve THEN w1 ELSE Observe(w1)
  ELSE [w EXCEPT !.listeners = AddEventListener(@, "attach")]

\* Mutant of Attach: the readyState check is missing.
AttachEager(w) ==
  IF w.attached THEN w
  ELSE LET w1 == Traverse(Undefined, [w EXCEPT !.attached = TRUE])
       IN IF w1.thrown \/ ~canObserve THEN w1 ELSE Observe(w1)

\* Mutant of Attach: the full-body traverse is missing.
AttachNoScan(w) ==
  IF w.attached THEN w
  ELSE IF readyState \in {"complete", "interactive", "loaded"}
       THEN LET w1 == [w EXCEPT !.attached = TRUE]
            IN IF ~canObserve THEN w1 ELSE Observe(w1)
       ELSE [w EXCEPT !.listeners = AddEventListener(@, "attach")]

\* Mutant of Detach: the observer is not disconnected.
DetachNoDisconnect(w) ==
  IF ~canObserve THEN w
  ELSE [w EXCEPT !.attached = FALSE]

\* Mutant of Detach: the check for the facility is missing.
DetachNoCheck(w) == Disconnect([w EXCEPT !.attached = FALSE])

\* attach()
Attach(w) ==
  IF w.attached THEN w
  ELSE IF readyState \in {"complete", "interactive", "loaded"}
       THEN LET w1 == Traverse(Undefined, [w EXCEPT !.attached = TRUE])
            IN IF w1.thrown \/ ~canObserve THEN w1 ELSE Observe(w1)
       ELSE [w EXCEPT !.listeners = AddEventListener(@, "attach")]

\* detach()
Detach(w) ==
  IF ~canObserve THEN w
  ELSE Disconnect([w EXCEPT !.attached = FALSE])

\* The browser dispatching DOMContentLoaded: each listener runs in order.
RECURSIVE Dispatch(_, _)
Dispatch(ls, w) ==
  IF ls = << >> THEN w
  ELSE Dispatch(Tail(ls), IF Head(ls) = "attach" THEN Attach(w) ELSE w)

\* ------------------------------------------------------------------------
\* The state machine
\* ------------------------------------------------------------------------

NoStep == [op |-> "new", arg |-> Undefined, trav |-> << >>, subs |-> 0,
           wrote |-> << >>, log |-> << >>, threw |-> FALSE, afterDetach |-> FALSE,
           pending |-> 0, applied |-> << >>]

\* new Affiliate(config) in a document that is still loading and holds link a1.
Init ==
  /\ \E config \in Configs : state = Constructor(config)
  /\ canObserve \in BOOLEAN
  /\ observer = [connected |-> FALSE, records |-> << >>]
  /\ readyState = "loading"
  /\ listeners = << >>
  /\ inDoc = {"a1"}
  /\ href = [l \in Links |-> IF l = "a1" THEN ShopX ELSE << >>]
  /\ docile = [l \in Links |-> << >>]
  /\ pristine = [l \in Links |-> << >>]
  /\ others = << >>
  /\ detachCalled = FALSE
  /\ tampered = {}
  /\ last = NoStep
  /\ pageOps = 0
  /\ calls = 0

\* What a handler leaves of the document, the observer and the window, and
\* the history of the step.
CommitDoc(w, op, arg) ==
  /\ observer' = [connected |-> w.connected, records |-> w.records]
  /\ listeners' = w.listeners
  /\ href' = w.href
  /\ docile' = w.docile
  /\ tampered' = w.tampered
  /\ pristine' = [l \in Links |->
                    IF pristine[l] = << >> /\ l \in Range(w.wrote)
                    THEN << href[l] >> ELSE pristine[l]]
  /\ last' = [op |-> op, arg |-> arg, trav |-> w.trav, subs |-> w.subs,
              wrote |-> w.wrote, log |-> w.log, threw |-> w.thrown,
              afterDetach |-> detachCalled,
              pending |-> Len(observer.records),
              applied |-> w.applied]

\* The state a handler of this instance leaves.
Commit(w, op, arg) ==
  /\ state' = [state EXCEPT !.attached = w.attached]
  /\ others' = others
  /\ CommitDoc(w, op, arg)

\* Page code calls traverse(nodeSet): no argument, an element, or a value
\* that is no element.
CallTraverse(nodeSet) ==
  /\ calls < MaxCalls
  /\ calls' = calls + 1
  /\ Commit(Traverse(nodeSet, World), "traverse", nodeSet)
  /\ UNCHANGED << canObserve, readyState, inDoc, detachCalled, pageOps >>

\* Page code calls attach().
CallAttach ==
  /\ calls < MaxCalls
  /\ calls' = calls + 1
  /\ Commit(Attach(World), "attach", Undefined)
  /\ detachCalled' = FALSE
  /\ UNCHANGED << canObserve, readyState, inDoc, pageOps >>

\* Page code calls detach().
CallDetach ==
  /\ calls < MaxCalls
  /\ calls' = calls + 1
  /\ Commit(Detach(World), "detach", Undefined)
  /\ detachCalled' = TRUE
  /\ UNCHANGED << canObserve, readyState, inDoc, pageOps >>

\* The browser delivers the queued records to the observer's callback, as one
\* batch; what the callback writes is queued for the next batch.
Callback ==
  /\ observer.connected
  /\ observer.records # << >>
  /\ Commit(HandleMutations(observer.records, [World EXCEPT !.records = << >>]),
            "callback", Undefined)
  /\ UNCHANGED << canObserve, readyState, inDoc, detachCalled, pageOps, calls >>

\* The document has been parsed: readyState becomes interactive.
DocInteractive ==
  /\ readyState = "loading"
  /\ readyState' = "interactive"
  /\ last' = [NoStep EXCEPT !.op = "interactive"]
  /\ UNCHANGED << state, others, canObserve, observer, listeners, inDoc, href,
                  docile, pristine, detachCalled, tampered, pageOps, calls >>

\* The browser fires DOMContentLoaded (once), then the document completes.
DOMContentLoaded ==
  /\ readyState = "interactive"
  /\ readyState' = "complete"
  /\ Commit(Dispatch(listeners, World), "DOMContentLoaded", Undefined)
  /\ detachCalled' = (detachCalled /\ listeners = << >>)
  /\ UNCHANGED << canObserve, inDoc, pageOps, calls >>

\* Page code sets the href of a link that is in the document.
PageSetHref(l, h) ==
  /\ pageOps < MaxPageOps
  /\ l \in inDoc
  /\ pageOps' = pageOps + 1
  /\ href' = [href EXCEPT ![l] = h]
  /\ observer' = [observer EXCEPT !.records =
                    Queue(@, observer.connected, l, Record("attributes", l, "page"))]
  /\ tampered' = tampered \cup {l}
  /\ last' = [NoStep EXCEPT !.op = "setHref"]
  /\ UNCHANGED << state, others, canObserve, readyState, listeners, inDoc,
                  docile, pristine, detachCalled, calls >>

\* Page code (or the parser) inserts a new link with an href under its parent.
PageAddLink(l, h) ==
  /\ pageOps < MaxPageOps
  /\ l \notin inDoc
  /\ pageOps' = pageOps + 1
  /\ inDoc' = inDoc \cup {l}
  /\ href' = [href EXCEPT ![l] = h]
  /\ observer' = [observer EXCEPT !.records =
                    Queue(@, observer.connected, Parent(l),
                          Record("childList", Parent(l), "page"))]
  /\ tampered' = tampered \cup {l}
  /\ last' = [NoStep EXCEPT !.op = "addLink"]
  /\ UNCHANGED << state, others, canObserve, readyState, listeners, docile,
                  pristine, detachCalled, calls >>

\* What page code may pass to traverse.
TraverseArgs == {Undefined, "a1", "text"}

Next ==
  \/ \E nodeSet \in TraverseArgs : CallTraverse(nodeSet)
  \/ CallAttach
  \/ CallDetach
  \/ Callback
  \/ DocInteractive
  \/ DOMContentLoaded
  \/ \E l \in PageLinks, h \in PageHrefs : PageSetHref(l, h)
  \/ \E l \in PageLinks, h \in PageHrefs : PageAddLink(l, h)

Spec == Init /\ [][Next]_vars

\* When the callback can run: the observer is connected and holds records.
CallbackEnabled == observer.connected /\ observer.records # << >>

\* A callback run never leaves the state as it was: the batch it took is gone,
\* and what it queued instead are records of the engine's own writes.
CallbackChangesState ==
  CallbackEnabled
  => HandleMutations(observer.records, [World EXCEPT !.records = << >>]).records
       # observer.records

\* The browser delivers queued records: a pending batch is not held back
\* forever. This is weak fairness of Callback, WF_vars(Callback), written out
\* with CallbackEnabled for ENABLED <<Callback>>_vars (CallbackChangesState
\* makes the two equal).
LiveSpec == Spec /\ ([]<>(~CallbackEnabled) \/ []<><<Callback>>_vars)

\* ------------------------------------------------------------------------
\* The transform pipeline on its own: traverse() calls on a loaded document
\* whose link a1 carries one of several hrefs, under one of several
\* configurations; the document may hold link a3 inside link a1
\* ------------------------------------------------------------------------

ShopXRefBK == ShopX \o <<"?", "ref", "=", "B", "&", "k", "=", "1">>
ShopUpper == <<"HTTP:", "//", "SHOP", "/x">>

PipeHrefs == {ShopX, ShopXRefA, ShopXRefBK, ShopUpper, OtherX}

PipeConfigs == Configs \cup { [tags |-> << TagMerge >>], [tags |-> << TagChain >>] }

PipeInit ==
  /\ \E config \in PipeConfigs : state = Constructor(config)
  /\ canObserve \in BOOLEAN
  /\ observer = [connected |-> FALSE, records |-> << >>]
  /\ readyState = "complete"
  /\ listeners = << >>
  /\ inDoc \in {{"a1"}, {"a1", "a3"}}
  /\ \E h \in PipeHrefs :
       href = [l \in Links |-> IF l = "a1" THEN h
                               ELSE IF l \in inDoc THEN ShopX ELSE << >>]
  /\ docile = [l \in Links |-> << >>]
  /\ pristine = [l \in Links |-> << >>]
  /\ others = << >>
  /\ detachCalled = FALSE
  /\ tampered = {}
  /\ last = NoStep
  /\ pageOps = 0
  /\ calls = 0

PipeNext == \E nodeSet \in TraverseArgs : CallTraverse(nodeSet)

PipelineSpec == PipeInit /\ [][PipeNext]_vars

\* ------------------------------------------------------------------------
\* Live tracking on its own: a loaded document with the facility available,
\* page code attaching and detaching the engine and changing links, among
\* them to an href that url-parse does not serialize back to itself
\* ------------------------------------------------------------------------

ShopUpperRefA == ShopUpper \o <<"?", "ref", "=", "A">>

TrackHrefs == {ShopX, ShopUpperRefA, OtherX}

TrackInit ==
  /\ \E config \in Configs : state = Constructor(config)
  /\ canObserve = TRUE
  /\ observer = [connected |-> FALSE, records |-> << >>]
  /\ readyState = "complete"
  /\ listeners = << >>
  /\ inDoc = {"a1"}
  /\ href = [l \in Links |-> IF l = "a1" THEN ShopX ELSE << >>]
  /\ docile = [l \in Links |-> << >>]
  /\ pristine = [l \in Links |-> << >>]
  /\ others = << >>
  /\ detachCalled = FALSE
  /\ tampered = {}
  /\ last = NoStep
  /\ pageOps = 0
  /\ calls = 0

TrackNext ==
  \/ CallAttach
  \/ CallDetach
  \/ Callback
  \/ \E l \in PageLinks, h \in TrackHrefs : PageSetHref(l, h)
  \/ \E l \in PageLinks, h \in TrackHrefs : PageAddLink(l, h)

TrackSpec == TrackInit /\ [][TrackNext]_vars

\* ------------------------------------------------------------------------
\* Two engine instances on one loaded document, each with one tag for host
\* shop; page code calls traverse() on either.  Docile's store is the one
\* store of the page: both instances read and write the same records.
\* ------------------------------------------------------------------------

TwoConfigs ==
  { [tags |-> << TagQ >>], [tags |-> << TagAff >>], [tags |-> << TagMerge >>] }

TwoHrefs == {ShopX, ShopXRefBK}

TwoInit ==
  /\ \E c1, c2 \in TwoConfigs :
       /\ c1 # c2
       /\ state = Constructor(c1)
       /\ others = << Constructor(c2) >>
  /\ canObserve \in BOOLEAN
  /\ observer = [connected |-> FALSE, records |-> << >>]
  /\ readyState = "complete"
  /\ listeners = << >>
  /\ inDoc = {"a1"}
  /\ \E h \in TwoHrefs : href = [l \in Links |-> IF l = "a1" THEN h ELSE << >>]
  /\ docile = [l \in Links |-> << >>]
  /\ pristine = [l \in Links |-> << >>]
  /\ detachCalled = FALSE
  /\ tampered = {}
  /\ last = NoStep
  /\ pageOps = 0
  /\ calls = 0

\* Page code calls traverse(nodeSet) on the other instance.
OtherTraverse(nodeSet) ==
  /\ calls < MaxCalls
  /\ others # << >>
  /\ calls' = calls + 1
  /\ CommitDoc(Traverse(nodeSet, WorldOf(others[1])), "otherTraverse", nodeSet)
  /\ UNCHANGED << state, others, canObserve, readyState, inDoc, detachCalled,
                  pageOps >>

TwoNext ==
  \/ \E nodeSet \in TraverseArgs : CallTraverse(nodeSet)
  \/ \E nodeSet \in TraverseArgs : OtherTraverse(nodeSet)

TwoSpec == TwoInit /\ [][TwoNext]_vars

\* ------------------------------------------------------------------------
\* Properties
\* ------------------------------------------------------------------------

\* The steps in which the engine's code runs.
EngineOps == {"traverse", "attach", "detach", "callback", "DOMContentLoaded"}

\* The union of every tag's hosts.
UnionHosts == UNION {Range(state.config.tags[i].hosts) : i \in 1..Len(state.config.tags)}

\* The host url-parse finds in a link's href.
HostOf(str) == ParseURL(str).host

\* One tag's transform of a URL string, as section 4.3 describes it: merge the
\* query, apply modify unless it throws, then the replacements in order.
TagTransform(tag, str) ==
  LET merged == SetQuery(ParseURL(str), Spread(ParseURL(str).query, tag.query))
      res == CallModify(tag.modify, merged)
      modified == IF tag.modify # Undefined /\ ~res.threw
                  THEN ParseURL(res.returned) ELSE merged
  IN ApplyReplace(Href(modified), tag.replace)

\* The left-to-right composition, from tag i on, of the transforms of the tags
\* that match host.
RECURSIVE Composition(_, _, _)
Composition(i, str, host) ==
  IF i > Len(state.config.tags) THEN str
  ELSE Composition(i + 1,
         IF Includes(state.config.tags[i].hosts, host)
         THEN TagTransform(state.config.tags[i], str) ELSE str,
         host)

\* C1: a traverse() that rewrites a link that has no provenance record yet
\* leaves as its href the left-to-right composition, over all tags matching
\* the link's host, of the tags' transforms, each applied to the URL the
\* previous one produced.
C1_Composition ==
  [][\A l \in Links :
       (last'.op = "traverse" /\ docile[l] = << >> /\ l \in Range(last'.wrote))
       => href'[l] = Composition(1, href[l], HostOf(href[l]))]_vars

\* C2: the provenance record's was is the href the link had before the
\* engine's first rewrite of it.
C2_WasIsPristine ==
  \A l \in Links : docile[l] # << >> => docile[l][1].was = pristine[l][1]

\* C3: a traverse() that directly follows a traverse() of the same root leaves
\* every href and every provenance record as they were.
C3_SecondTraverseNoOp ==
  [][(last.op = "traverse" /\ last'.op = "traverse" /\ last'.arg = last.arg)
     => (href' = href /\ docile' = docile)]_vars

\* A record of the callback's log whose target's href was the stored is.
HrefIsStored(e) ==
  e.type = "attributes" /\ e.stored # << >> /\ e.stored[1].is = e.href

\* C4 as stated: the callback calls no traverse() and changes nothing for an
\* href change whose target's href equals the is of its provenance record.
C4_SelfMutationSuppressed ==
  \A i \in 1..Len(last.log) :
    HrefIsStored(last.log[i]) => ~last.log[i].traversed /\ ~last.log[i].changed

\* C4 as amended: for such a change the callback changes nothing, and it calls
\* no traverse() when the stored is is not the empty string.
C4_SuppressedUnlessEmpty ==
  \A i \in 1..Len(last.log) :
    HrefIsStored(last.log[i])
    => /\ ~last.log[i].changed
       /\ Truthy(last.log[i].href) => ~last.log[i].traversed

\* C4's case: the callback met a record of the engine's own non-empty write
\* and skipped it.
C4_Witness ==
  /\ last.op = "callback"
  /\ \E i \in 1..Len(last.log) :
       /\ HrefIsStored(last.log[i]) /\ Truthy(last.log[i].href)
       /\ last.log[i].by = "engine" /\ ~last.log[i].traversed

\* C5: a batch that holds only records of the engine's own writes makes the
\* engine write nothing and queue nothing, and the record queue is eventually
\* empty for good.
C5_NoRewriteLoop ==
  /\ [][(last'.op = "callback"
         /\ \A i \in 1..Len(observer.records) : observer.records[i].by = "engine")
        => (href' = href /\ docile' = docile /\ observer'.records = << >>)]_vars
  /\ <>[](observer.records = << >>)

\* C5's case: one batch held two records of the engine's writes to one link
\* (two matching tags in one traverse) and the callback wrote nothing.
C5_Witness ==
  /\ last.op = "callback"
  /\ Len(last.log) >= 2
  /\ \A i \in 1..Len(last.log) :
       last.log[i].by = "engine" /\ last.log[i].target = last.log[1].target
  /\ last.wrote = << >>

\* C6: no step of the engine changes the href or the provenance record of a
\* link whose parsed host is in no tag's hosts.
C6_HostFiltering ==
  [][\A l \in Links :
       (last'.op \in EngineOps /\ HostOf(href[l]) \notin UnionHosts)
       => (href'[l] = href[l] /\ docile'[l] = docile[l])]_vars

\* C6's case: a full-body traverse rewrote one link and passed over another
\* whose host no tag names.
C6_Witness ==
  /\ last.op = "traverse" /\ last.arg = Undefined
  /\ last.wrote # << >>
  /\ \E l \in inDoc :
       /\ Truthy(href[l]) /\ HostOf(href[l]) \notin UnionHosts
       /\ docile[l] = << >>

\* The configuration whose first tag's modify always throws (TagThrow, TagAff).
ThrowingConfig == state.config.tags[1].modify = "throws"

OtherXRefB == OtherX \o <<"?", "ref", "=", "B">>
ShopXMRefAAff == <<"http:", "//", "shop", "/x", "/m", "?", "ref", "=", "A",
                   "&", "aff", "=", "1">>

\* C7: with a tag whose modify throws, no exception leaves a handler; a
\* full-body traverse leaves a fresh link that only this tag matches with the
\* tag's query merged and its replace applied (http://other/x becomes
\* http://other/x?ref=B) and a provenance record, and a fresh link that the
\* next tag matches too is written by both tags.
C7_ThrowContained ==
  [][(last'.op \in EngineOps /\ ThrowingConfig)
     => /\ ~last'.threw
        /\ \A l \in inDoc :
             (Undefined \in Range(last'.trav) /\ docile[l] = << >>)
             => /\ href[l] = OtherX
                   => /\ href'[l] = OtherXRefB
                      /\ docile'[l] = << [was |-> OtherX, is |-> OtherXRefB] >>
                /\ href[l] = ShopX
                   => /\ href'[l] = ShopXMRefAAff
                      /\ Len(SelectSeq(last'.wrote, LAMBDA n : n = l)) = 2]_vars

\* C7's case: one traverse applied the throwing tag to a link, which carries
\* the merged query and the replacement, and went on to the next link.
C7_Witness ==
  /\ ThrowingConfig
  /\ last.op = "traverse"
  /\ Range(last.wrote) = PageLinks
  /\ \E l \in Links :
       href[l] = OtherXRefB /\ docile[l] = << [was |-> OtherX, is |-> OtherXRefB] >>

\* The document is past its loading stage.
Ready == readyState \in {"complete", "interactive", "loaded"}

\* attach() runs in the next step: called by page code, or as the registered
\* DOMContentLoaded listener.
AttachRuns ==
  \/ last'.op = "attach"
  \/ last'.op = "DOMContentLoaded" /\ listeners # << >>

\* C8: attach() on an attached engine traverses nothing, subscribes to
\* nothing and leaves the engine state, the observer, the listener list and
\* every link as they were.
C8_AttachTwiceNoOp ==
  [][(state.attached /\ AttachRuns)
     => /\ UNCHANGED << state, observer, listeners, href, docile >>
        /\ last'.trav = << >> /\ last'.subs = 0]_vars

\* C8's case: the third call in a row found the engine attached.
C8_Witness ==
  /\ last.op = "attach" /\ Ready /\ state.attached
  /\ last.trav = << >> /\ calls = MaxCalls /\ pageOps = 0

\* C9: while the document is loading the engine is detached, attach() has
\* traversed nothing and there is at most one retry registration, exactly one
\* after an attach() call; when DOMContentLoaded finds the engine detached the
\* retry makes exactly one full-body traverse and leaves the engine attached.
C9_DeferredAttach ==
  /\ [](readyState = "loading"
        => /\ ~state.attached /\ ~observer.connected
           /\ Len(listeners) <= 1
           /\ last.op = "attach" => (last.trav = << >> /\ listeners = <<"attach">>))
  /\ [][(last'.op = "DOMContentLoaded" /\ listeners # << >> /\ ~state.attached)
        => /\ state'.attached
           /\ last'.trav = << Undefined >>
           /\ observer'.connected = canObserve
           /\ listeners' = <<"attach">>]_vars

\* C9's case: attach() was called while loading and the retry has attached
\* the engine and rewritten a link.
C9_Witness ==
  /\ last.op = "DOMContentLoaded"
  /\ listeners = <<"attach">>
  /\ state.attached
  /\ last.trav = << Undefined >> /\ last.wrote # << >>

\* After a full-body traverse: every link in the document with an href and a
\* matching host (before the step) has a provenance record whose is is its
\* href, or the parsed form of its href when the idempotence check passed it.
Rescanned ==
  \A l \in inDoc :
    (Truthy(href[l]) /\ HostOf(href[l]) \in UnionHosts)
    => /\ docile'[l] # << >>
       /\ docile'[l][1].is \in {href'[l], Href(ParseURL(href'[l]))}

C11_DetachCancels ==
  /\ []((detachCalled /\ canObserve)
        => (~state.attached /\ ~observer.connected /\ observer.records = << >>))
  /\ [][(detachCalled /\ canObserve) => last'.op # "callback"]_vars

\* C11's case: detach() was called while records of a document change were
\* waiting for delivery.
C11_Witness ==
  /\ last.op = "detach" /\ canObserve /\ detachCalled
  /\ last.pending > 0
  /\ observer.records = << >>

\* C12: without the change-notification facility, attach() on a ready
\* document sets attached, makes one full-body traverse, subscribes to nothing
\* and throws nothing; detach() leaves the engine state, the observer, the
\* listeners and every link as they were; no callback runs, and once attached
\* the engine writes links only in traverse() calls.
C12_NoFacility ==
  [][~canObserve
     => /\ (AttachRuns /\ Ready /\ ~state.attached)
           => /\ state'.attached
              /\ last'.trav = << Undefined >>
              /\ last'.subs = 0 /\ ~observer'.connected
              /\ ~last'.threw
        /\ last'.op = "detach"
           => /\ UNCHANGED << state, observer, listeners, href, docile >>
              /\ last'.trav = << >> /\ ~last'.threw
        /\ last'.op # "callback"
        /\ (state.attached /\ last'.wrote # << >>) => last'.op = "traverse"]_vars

\* C12's case: without the facility attach() has rewritten a link, and a
\* detach() call has left the engine attached.
C12_Witness ==
  /\ ~canObserve
  /\ last.op = "detach" /\ state.attached
  /\ \E l \in inDoc : docile[l] # << >> /\ docile[l][1].is = href[l]

\* The query url-parse finds in a URL string.
QueryOf(str) == ParseURL(str).query

\* For one #modifyURL invocation: the written href's query has every key of
\* the tag's query with the tag's value, and every other key of the query the
\* URL had on entry with the value it had.
MergeHolds(e) ==
  LET q == QueryOf(e.href)
      orig == QueryOf(e.url)
  IN /\ \A i \in 1..Len(e.tag.query) :
          /\ HasKey(q, e.tag.query[i].key)
          /\ Lookup(q, e.tag.query[i].key) = e.tag.query[i].value
     /\ \A i \in 1..Len(orig) :
          ~HasKey(e.tag.query, orig[i].key)
          => /\ HasKey(q, orig[i].key)
             /\ Lookup(q, orig[i].key) = orig[i].value

BeforeReplace(e) ==
  LET url == ParseURL(e.url)
      merged == SetQuery(url, Spread(url.query, e.tag.query))
      res == CallModify(e.tag.modify, merged)
  IN IF e.tag.modify # Undefined /\ ~res.threw THEN res.returned ELSE Href(merged)

\* str after the first k entries of replace, each applied to the result of
\* the entries before it.
RECURSIVE ReplacedUpTo(_, _, _)
ReplacedUpTo(str, replace, k) ==
  IF k = 0 THEN str
  ELSE StrReplace(ReplacedUpTo(str, replace, k - 1), replace[k].from, replace[k].to)

HttpsNewX == <<"https:", "//", "new", "/x">>

\* C14: the href an invocation writes is the serialized URL after the tag's
\* replace entries, applied in declared order, each to the result of the ones
\* before it; http://shop/x with [http: -> https:, https://shop -> https://new]
\* is written as https://new/x.
C14_ReplaceOrdering ==
  \A i \in 1..Len(last.applied) :
    LET e == last.applied[i]
    IN ~e.skipped
       => /\ e.href = ReplacedUpTo(BeforeReplace(e), e.tag.replace, Len(e.tag.replace))
          /\ e.stored = << [was |-> e.url, is |-> e.href] >>
          /\ (e.url = ShopX /\ Len(e.tag.replace) = 2 /\ e.tag.query = << >>)
             => e.href = HttpsNewX

\* C14's case: a tag with two replace entries, the second matching only what
\* the first produced, rewrote http://shop/x to https://new/x.
C14_Witness ==
  /\ href["a1"] = HttpsNewX
  /\ \E i \in 1..Len(last.applied) :
       /\ ~last.applied[i].skipped
       /\ last.applied[i].attr = ShopX
       /\ Len(last.applied[i].tag.replace) = 2
       /\ last.applied[i].href = HttpsNewX

\* The link is in the document with a non-empty href whose host some tag names.
Matching(l) ==
  l \in inDoc /\ Truthy(href[l]) /\ HostOf(href[l]) \in UnionHosts

\* The link has a provenance record whose is is its href.
Rewritten(l) == docile[l] # << >> /\ docile[l][1].is = href[l]

\* C15: when the engine is attached with the facility available and every
\* change record has been delivered, every matching link in the document is
\* rewritten: it has a provenance record whose is is its href.
C15_LiveTracking ==
  (state.attached /\ canObserve /\ observer.records = << >>)
  => \A l \in Links : Matching(l) => Rewritten(l)

\* C16: for every record the callback does not ignore it calls traverse()
\* once, on the record's target, and the links whose href or provenance
\* record the handling changes are the target or lie in the target's subtree.
C16_ScopedRescan ==
  \A i \in 1..Len(last.log) :
    LET e == last.log[i]
    IN /\ e.traversed => e.args = << e.target >>
       /\ \A l \in e.touched : l = e.target \/ e.target \in Ancestors(l)

\* C16's case: the record of a link inserted under the div made the engine
\* rewrite that link, while a link outside the div was in the document.
C16_Witness ==
  /\ last.op = "callback"
  /\ "a1" \in inDoc /\ Truthy(href["a1"])
  /\ \E i \in 1..Len(last.log) :
       /\ last.log[i].target = "div"
       /\ last.log[i].args = << "div" >>
       /\ last.log[i].touched = {"a2"}

\* C17: when a #modifyURL invocation returns, having written the link or
\* having returned on the idempotence check with no href change by page code
\* since the engine's last write, a link that has a provenance record has
\* the record's is as its href.
C17_HrefIsStoredAfter ==
  \A i \in 1..Len(last.applied) :
    LET e == last.applied[i]
    IN (e.stored # << >> /\ (e.skipped => ~e.tampered))
       => e.href = e.stored[1].is

\* C17's case: in one step an invocation wrote a link and a later one
\* returned on the idempotence check for the same link.
C17_Witness ==
  \E i, j \in 1..Len(last.applied) :
    /\ i < j
    /\ last.applied[i].node = last.applied[j].node
    /\ ~last.applied[i].skipped /\ last.applied[i].href = last.applied[i].stored[1].is
    /\ last.applied[j].skipped /\ ~last.applied[j].tampered
    /\ last.applied[j].href = last.applied[j].stored[1].is

\* The element traverse(arg) starts from.
RootOf(arg) == IF arg = Undefined THEN "body" ELSE arg

\* C18: traverse(root) passes to #modifyURL every link in the document that
\* is root or lies in root's subtree, has a non-empty href and a host some
\* tag names, also when root is itself a link.
C18_TraverseWholeSubtree ==
  [][\A l \in Links :
       (/\ last'.op = "traverse" /\ RootOf(last'.arg) \in Elems
        /\ l \in inDoc
        /\ (l = RootOf(last'.arg) \/ RootOf(last'.arg) \in Ancestors(l))
        /\ Truthy(href[l]) /\ HostOf(href[l]) \in UnionHosts)
       => \E i \in 1..Len(last'.applied) : last'.applied[i].node = l]_vars

\* The #state of the instance whose traverse() the step op ran.
InstanceOf(op) == IF op = "traverse" THEN state ELSE others[1]

\* C19: when one instance has traversed the document and the other instance
\* then calls traverse() for the first time, the second instance rewrites
\* every link in the scanned subtree that has a non-empty href and a host its
\* tag names: it skips no link because the first instance wrote it.
C19_InstanceIndependence ==
  [][\A l \in Links :
       (/\ calls = 1
        /\ {last.op, last'.op} = {"traverse", "otherTraverse"}
        /\ RootOf(last'.arg) \in Elems
        /\ l \in inDoc
        /\ (l = RootOf(last'.arg) \/ RootOf(last'.arg) \in Ancestors(l))
        /\ Truthy(href[l])
        /\ Includes(InstanceOf(last'.op).hosts, HostOf(href[l])))
       => \E i \in 1..Len(last'.applied) :
            last'.applied[i].node = l /\ ~last'.applied[i].skipped]_vars

\* C20: when attach() was called while the document was loading and detach()
\* was called after it, still while loading, the DOMContentLoaded that
\* follows the end of loading leaves the engine detached, traverses nothing,
\* subscribes to nothing and changes no link.
C20_DetachCancelsRetry ==
  [][(/\ last.op = "interactive" /\ last'.op = "DOMContentLoaded"
      /\ detachCalled /\ listeners # << >>)
     => /\ ~state'.attached
        /\ last'.trav = << >> /\ last'.subs = 0
        /\ href' = href /\ docile' = docile]_vars

====
